---- MODULE Spec2Model ----
(***************************************************************************)
(* The question-graph resolution engine of knext/ca/common/base.py:        *)
(* Question (is_solved), Agent (__init__, solve_problem, reset_context,    *)
(* process_intermediate_info, is_question_deps_ready,                      *)
(* is_question_children_ready).  Agent.solve_problem_impl is abstract in   *)
(* base.py; the concrete strategy that drives the gates is modelled from   *)
(* the written design (one cooperative task per node, a FIFO work queue).  *)
(* Question.__init__ and Question.get_current_depth have specifications of *)
(* their own (CtorSpec, DepthSpec); AgentSpec adds the Agent whose         *)
(* solve_problem_impl is the one of base.py.                               *)
(***************************************************************************)
EXTENDS Integers, Sequences, FiniteSets, TLC

\* ---------------------------------------------------------------- bounds
NumNodes == 3
MaxEdges == 2
MaxRuns == 2
NumTools == 2
NumFetchers == 1

Nodes == 1..NumNodes
Answers == {"a"}
Keys == {"k"}
Values == {"v"}

\* Python's None and a present value.
None == <<>>
Some(v) == <<v>>

VARIABLES
    dependencies,               \* Question.dependencies, per node: a sequence of nodes
    children,                   \* Question.children, per node: a sequence of nodes
    answer,                     \* Question.answer, per node: None or Some(text)
    remaining_question_set,     \* Agent fields, None until reset_context
    ready_question_set,
    solved_question_set,
    ready_question_count,
    queue,
    intermediate_process_tasks,
    extra_output_dict,          \* the identity of the dict object the Agent holds
    connected,                  \* per fetcher: the identity of the dict it was connected to
    heap,                       \* dict identity -> contents (key -> None or Some(value))
    runState,                   \* position of the caller in solve_problem
    question,                   \* the root passed to solve_problem (0 before the first call)
    runs,                       \* number of solve_problem calls so far
    pc,                         \* per node: position of the node's task
    dispatchCount,              \* per node: submissions to the answering unit in this run
    lastCall,                   \* the most recent process_intermediate_info call
    stopSignals,                \* per tool: process() calls that carried the end marker, this run
    built,                      \* per node: None, or Some(which list arguments __init__ was given)
    listOf,                     \* per node: the identities of its dependencies and children lists
    parent,                     \* Question.parent, per node: None or Some(node)
    frame,                      \* the call of get_current_depth: self, now, now_depth, position
    overridden,                 \* whether the Agent's class overrides solve_problem_impl
    implOutcome,                \* what solve_problem_impl produced in this run: a value or an error
    returned                    \* what solve_problem gave its caller in this run

questionVars == <<dependencies, children, answer>>
bookVars == <<remaining_question_set, ready_question_set, solved_question_set,
              ready_question_count, queue, intermediate_process_tasks>>
dictVars == <<extra_output_dict, connected, heap>>
toolVars == <<lastCall, stopSignals>>
nodeVars == <<built, listOf, parent, frame>>
callVars == <<overridden, implOutcome, returned>>
agentVars == <<bookVars, dictVars, runState, question, runs, pc, dispatchCount,
               toolVars, callVars>>
vars == <<dependencies, children, answer, remaining_question_set, ready_question_set,
          solved_question_set, ready_question_count, queue, intermediate_process_tasks,
          extra_output_dict, connected, heap, runState, question, runs, pc,
          dispatchCount, lastCall, stopSignals, built, listOf, parent, frame,
          overridden, implOutcome, returned>>

\* ------------------------------------------------- the Agent's collaborators
intermediate_process_tools == [i \in 1..NumTools |-> i]
extra_info_fetch_tools == [i \in 1..NumFetchers |-> i]

\* The two kinds of event handed to process_intermediate_info.
StopMarker == [kind |-> "StopAsyncIteration", node |-> 0, answer |-> None]
Payload(n, a) == [kind |-> "dict", node |-> n, answer |-> Some(a)]
isinstance_StopAsyncIteration(info) == info.kind = "StopAsyncIteration"

\* ------------------------------------------------------------- Question
is_solved(n) == answer[n] # None

\* ------------------------------------------------------- question graphs
EdgeKinds == {"dep", "child"}
Edge == [kind : EdgeKinds, from : Nodes, to : Nodes]
EdgeLists(k) == [1..k -> Edge]

\* The list a node holds for one kind of edge, in the order the edges were appended.
EdgesOf(es, kind, n) ==
    LET s == SelectSeq(es, LAMBDA e : e.kind = kind /\ e.from = n)
    IN  [i \in 1..Len(s) |-> s[i].to]

Range(s) == {s[i] : i \in 1..Len(s)}
Succ(n) == Range(dependencies[n]) \cup Range(children[n])

RECURSIVE Closure(_, _)
Closure(S, k) ==
    LET T == S \cup UNION {Succ(n) : n \in S}
    IN  IF k = 0 \/ T = S THEN S ELSE Closure(T, k - 1)

\* The nodes of the question graph rooted at q.
Reach(q) == Closure({q}, NumNodes)
\* The nodes reachable from n along at least one edge.
ReachPlus(n) == Closure(Succ(n), NumNodes)
IsDAG(q) == \A n \in Reach(q) : n \notin ReachPlus(n)

\* --------------------------------------------------------- the two gates
\* One pass of the for loop of a gate over the list qs, from position i, with the
\* flag all_solved as it stands: a member that is not solved clears the flag.
RECURSIVE GateScan(_, _, _)

\* The scan with the flag overwritten by every member instead of only cleared:
\* the last member of the list alone decides.
RECURSIVE GateScanLastDecides(_, _, _)
GateScanLastDecides(qs, i, all_solved) ==
    IF i > Len(qs) THEN all_solved
    ELSE GateScanLastDecides(qs, i + 1, is_solved(qs[i]))

GateScan(qs, i, all_solved) ==
    IF i > Len(qs) THEN all_solved
    ELSE GateScan(qs, i + 1, IF ~is_solved(qs[i]) THEN FALSE ELSE all_solved)

\* The dependencies gate with the flag starting FALSE: it never breaks.
is_question_deps_ready_never(n) == GateScan(dependencies[n], 1, FALSE)

\* One iteration of the while loop of is_question_deps_ready: TRUE when it breaks.
is_question_deps_ready(n) == GateScan(dependencies[n], 1, TRUE)

\* One iteration of the while loop of is_question_children_ready.
\* A children gate that takes an empty list for not ready.
is_question_children_ready_nonempty(n) ==
    children[n] # <<>> /\ GateScan(children[n], 1, TRUE)

is_question_children_ready(n) == GateScan(children[n], 1, TRUE)

\* ---------------------------------------------- process_intermediate_info
\* The for loop over intermediate_process_tools from position i: process(info) is
\* called on each tool in turn; the call on tool raiseAt raises (0: none raises)
\* and ends the loop.  The result is the calls made and whether one raised.
RECURSIVE ForTools(_, _, _, _)
ForTools(i, info, raiseAt, log) ==
    IF i > Len(intermediate_process_tools) THEN [log |-> log, raised |-> FALSE]
    ELSE LET called == Append(log, <<intermediate_process_tools[i], info>>)
         IN  IF i = raiseAt THEN [log |-> called, raised |-> TRUE]
             ELSE ForTools(i + 1, info, raiseAt, called)

process_intermediate_info(info, raiseAt) ==
    IF ~isinstance_StopAsyncIteration(info)
    THEN ForTools(1, info, raiseAt, <<>>)
    ELSE [log |-> <<>>, raised |-> FALSE]

\* The number of calls in log that went to tool t carrying the end marker.
MarkerCalls(log, t) ==
    Cardinality({i \in 1..Len(log) : log[i][1] = t /\ log[i][2] = StopMarker})

NoCall == [info |-> StopMarker, log |-> <<>>, raised |-> FALSE, made |-> FALSE]

\* The question the caller passes to solve_problem.  The graphs of Init cover every
\* labelling of the nodes, so the first node stands for any root.
RootQuestion == CHOOSE q \in Nodes : \A n \in Nodes : q <= n

\* ------------------------------------------------------- Question.__init__
\* The identity of a list object.  The default values of the parameters
\* dependencies and children are two list objects, made once when __init__ is
\* defined (owner 0); a list the caller passes for node n is an object of its own.
ListFields == {"dependencies", "children"}
DefaultList(field) == [owner |-> 0, field |-> field]
ArgumentList(n, field) == [owner |-> n, field |-> field]

\* The contents of a list object: what a node bound to it holds; a list no node is
\* bound to yet is as it was made, empty.
ContentsOf(n, field) == IF field = "dependencies" THEN dependencies[n] ELSE children[n]
BoundTo(id, field) == {k \in Nodes : built[k] # None /\ listOf[k][field] = id}
ListContents(id, field) ==
    IF BoundTo(id, field) = {} THEN <<>>
    ELSE ContentsOf(CHOOSE k \in BoundTo(id, field) : TRUE, field)

\* The number of elements in the list objects that nodes are bound to.
ListsInUse == {[id |-> listOf[k][f], field |-> f] : k \in {j \in Nodes : built[j] # None},
                                                    f \in ListFields}
RECURSIVE TotalLen(_)
TotalLen(S) ==
    IF S = {} THEN 0
    ELSE LET l == CHOOSE x \in S : TRUE
         IN  Len(ListContents(l.id, l.field)) + TotalLen(S \ {l})

\* The object a parameter is bound to in a call of __init__ for node n.
Parameter(n, field, given) == IF given THEN ArgumentList(n, field) ELSE DefaultList(field)

\* Question(text, ...) for node n: deps_given and children_given say whether the
\* caller passed a (new, empty) list for the parameter or left it out; p is the
\* parent argument.  The fields are bound to the parameters' objects.
Question_init(n, deps_given, children_given, p) ==
    /\ built[n] = None
    /\ built' = [built EXCEPT ![n] = Some([dependencies |-> deps_given,
                                           children |-> children_given])]
    /\ LET d == Parameter(n, "dependencies", deps_given)
           c == Parameter(n, "children", children_given)
       IN  /\ listOf' = [listOf EXCEPT ![n] = [dependencies |-> d, children |-> c]]
           /\ dependencies' = [dependencies EXCEPT ![n] = ListContents(d, "dependencies")]
           /\ children' = [children EXCEPT ![n] = ListContents(c, "children")]
    /\ parent' = [parent EXCEPT ![n] = p]
    /\ answer' = [answer EXCEPT ![n] = None]
    /\ UNCHANGED <<frame, agentVars>>

\* n.dependencies.append(m): the list object n.dependencies is bound to grows, for
\* every node bound to that object.
AppendDependency(n, m) ==
    /\ built[n] # None
    /\ built[m] # None
    /\ TotalLen(ListsInUse) < MaxEdges
    /\ dependencies' = [k \in Nodes |->
                            IF k \in BoundTo(listOf[n].dependencies, "dependencies")
                            THEN Append(dependencies[k], m) ELSE dependencies[k]]
    /\ UNCHANGED <<children, answer, nodeVars, agentVars>>

\* n.children.append(m).
AppendChild(n, m) ==
    /\ built[n] # None
    /\ built[m] # None
    /\ TotalLen(ListsInUse) < MaxEdges
    /\ children' = [k \in Nodes |->
                        IF k \in BoundTo(listOf[n].children, "children")
                        THEN Append(children[k], m) ELSE children[k]]
    /\ UNCHANGED <<dependencies, answer, nodeVars, agentVars>>

\* ------------------------------------------------ Question.get_current_depth
\* No call of get_current_depth is under way.
NoFrame == [self |-> 0, now |-> 0, now_depth |-> 0, pc |-> "idle"]

\* On a parent chain that runs into a cycle the loop does not end; the model
\* follows it until now_depth has passed the number of nodes.
MaxDepth == NumNodes + 1

\* get_current_depth() entered on node n: now_depth = 1, now = self.
DepthEnter(n) == [self |-> n, now |-> n, now_depth |-> 1, pc |-> "loop"]

\* The loop body without the count.
WalkNoCount(f) ==
    IF parent[f.now] # None
    THEN [f EXCEPT !.now = parent[f.now][1]]
    ELSE [f EXCEPT !.pc = "returned"]

\* One test of `while now.parent`: the loop body, or the exit to
\* `return now_depth` when now has no parent.
Walk(f) ==
    IF parent[f.now] # None
    THEN [f EXCEPT !.now = parent[f.now][1], !.now_depth = f.now_depth + 1]
    ELSE [f EXCEPT !.pc = "returned"]

\* The caller calls n.get_current_depth().
get_current_depth(n) ==
    /\ frame.pc \in {"idle", "returned"}
    /\ built[n] # None
    /\ frame' = DepthEnter(n)
    /\ UNCHANGED <<questionVars, built, listOf, parent, agentVars>>

\* The call goes on by one test of the loop condition.
DepthLoop ==
    /\ frame.pc = "loop"
    /\ frame.now_depth < MaxDepth
    /\ frame' = Walk(frame)
    /\ UNCHANGED <<questionVars, built, listOf, parent, agentVars>>

\* ------------------------------------------------------------ Agent.__init__
EmptyDict == [k \in Keys |-> None]

\* What solve_problem_impl produced, and what solve_problem gave its caller.
Pending == [kind |-> "pending", val |-> "none"]
Value(v) == [kind |-> "value", val |-> v]
Raised(e) == [kind |-> "raised", val |-> e]

\* The Agent after construction.
AgentInit ==
    /\ remaining_question_set = None
    /\ ready_question_set = None
    /\ solved_question_set = None
    /\ ready_question_count = None
    /\ queue = None
    /\ intermediate_process_tasks = <<>>
    /\ extra_output_dict = 0
    /\ connected = [i \in 1..Len(extra_info_fetch_tools) |-> 0]
    /\ heap = [d \in {0} |-> EmptyDict]
    /\ runState = "idle"
    /\ question = 0
    /\ runs = 0
    /\ pc = [n \in Nodes |-> "none"]
    /\ dispatchCount = [n \in Nodes |-> 0]
    /\ lastCall = NoCall
    /\ stopSignals = [t \in Range(intermediate_process_tools) |-> 0]
    /\ implOutcome = Pending
    /\ returned = Pending

\* A question graph whose nodes were each built with lists of their own.
GraphInit ==
    /\ \E k \in 0..MaxEdges : \E es \in EdgeLists(k) :
          /\ dependencies = [n \in Nodes |-> EdgesOf(es, "dep", n)]
          /\ children = [n \in Nodes |-> EdgesOf(es, "child", n)]
    \* Questions the root does not reach take no part in a run: they have no edges.
    /\ \A n \in Nodes \ Reach(RootQuestion) :
          dependencies[n] = <<>> /\ children[n] = <<>>
    /\ answer = [n \in Nodes |-> None]
    /\ built = [n \in Nodes |-> Some([dependencies |-> TRUE, children |-> TRUE])]
    /\ listOf = [n \in Nodes |-> [dependencies |-> ArgumentList(n, "dependencies"),
                                   children |-> ArgumentList(n, "children")]]
    /\ parent = [n \in Nodes |-> None]
    /\ frame = NoFrame

\* An Agent of a class that implements solve_problem_impl, and a question graph.
Init ==
    /\ GraphInit
    /\ AgentInit
    /\ overridden = TRUE

\* ------------------------------------------------------ Agent.reset_context
\* A dict object that does not exist yet.
FreshDict == Cardinality(DOMAIN heap)

\* reset_context that leaves solved_question_set as the last run left it.
reset_context_keeps_solved ==
    /\ remaining_question_set' = Some({})
    /\ ready_question_set' = Some({})
    /\ solved_question_set' = IF solved_question_set = None THEN Some({})
                               ELSE solved_question_set
    /\ ready_question_count' = Some(0)
    /\ queue' = Some(<<>>)
    /\ intermediate_process_tasks' = <<>>
    /\ extra_output_dict' = FreshDict
    /\ heap' = [d \in DOMAIN heap \cup {FreshDict} |->
                    IF d = FreshDict THEN EmptyDict ELSE heap[d]]
    /\ UNCHANGED <<dependencies, children, answer, connected>>

\* reset_context that also clears the answers of the questions.
reset_context_clears_answers ==
    /\ remaining_question_set' = Some({})
    /\ ready_question_set' = Some({})
    /\ solved_question_set' = Some({})
    /\ ready_question_count' = Some(0)
    /\ queue' = Some(<<>>)
    /\ intermediate_process_tasks' = <<>>
    /\ extra_output_dict' = FreshDict
    /\ heap' = [d \in DOMAIN heap \cup {FreshDict} |->
                    IF d = FreshDict THEN EmptyDict ELSE heap[d]]
    /\ answer' = [n \in Nodes |-> None]
    /\ UNCHANGED <<dependencies, children, connected>>

reset_context ==
    /\ remaining_question_set' = Some({})
    /\ ready_question_set' = Some({})
    /\ solved_question_set' = Some({})
    /\ ready_question_count' = Some(0)
    /\ queue' = Some(<<>>)
    /\ intermediate_process_tasks' = <<>>
    /\ extra_output_dict' = FreshDict
    /\ heap' = [d \in DOMAIN heap \cup {FreshDict} |->
                    IF d = FreshDict THEN EmptyDict ELSE heap[d]]
    /\ UNCHANGED <<dependencies, children, answer, connected>>

\* ------------------------------------------------------ Agent.solve_problem
\* The caller enters solve_problem(q): a new event loop (no task of an earlier
\* loop runs again), then reset_context(); solve_problem_impl is about to start.
SolveProblem(q) ==
    /\ runState \in {"idle", "done", "failed"}
    /\ runs < MaxRuns
    /\ reset_context
    /\ question' = q
    /\ runs' = runs + 1
    /\ runState' = "impl_start"
    /\ pc' = [n \in Nodes |-> "none"]
    /\ dispatchCount' = [n \in Nodes |-> 0]
    /\ stopSignals' = [t \in Range(intermediate_process_tools) |-> 0]
    /\ lastCall' = NoCall
    /\ implOutcome' = Pending
    /\ returned' = Pending
    /\ UNCHANGED <<nodeVars, overridden>>

\* ------------------------------------- the resolution strategy (from the design)
\* solve_problem_impl starts: it seeds the bookkeeping from the question graph and
\* spawns one task per node of the graph that has no answer yet.
ImplStart ==
    /\ runState = "impl_start"
    /\ overridden
    /\ runState' = "running"
    /\ remaining_question_set' = Some({n \in Reach(question) : ~is_solved(n)})
    /\ pc' = [n \in Nodes |->
                IF n \notin Reach(question) THEN "none"
                ELSE IF is_solved(n) THEN "finished" ELSE "deps_check"]
    /\ UNCHANGED <<questionVars, nodeVars, callVars, ready_question_set,
                   solved_question_set, ready_question_count, queue, intermediate_process_tasks,
                   dictVars, question, runs, dispatchCount, toolVars>>

\* The task of n runs one iteration of is_question_deps_ready(n): it returns from
\* the gate, or goes to sleep.
DepsCheck(n) ==
    /\ runState = "running"
    /\ pc[n] = "deps_check"
    /\ pc' = [pc EXCEPT ![n] = IF is_question_deps_ready(n)
                                THEN "children_check" ELSE "deps_sleep"]
    /\ UNCHANGED <<questionVars, nodeVars, callVars, bookVars, dictVars, runState, question,
                   runs,
                   dispatchCount, toolVars>>

\* A dependencies gate that, once asleep, does not test the list again.
DepsWakeSleepsOn(n) ==
    /\ runState = "running"
    /\ pc[n] = "deps_sleep"
    /\ UNCHANGED vars

\* asyncio.sleep(0.5) of the dependencies gate is over.
DepsWake(n) ==
    /\ runState = "running"
    /\ pc[n] = "deps_sleep"
    /\ pc' = [pc EXCEPT ![n] = "deps_check"]
    /\ UNCHANGED <<questionVars, nodeVars, callVars, bookVars, dictVars, runState, question,
                   runs,
                   dispatchCount, toolVars>>

\* The task of n runs one iteration of is_question_children_ready(n): it returns
\* from the gate, or goes to sleep.  The gate touches no field of the Agent.
ChildrenCheck(n) ==
    /\ runState = "running"
    /\ pc[n] = "children_check"
    /\ pc' = [pc EXCEPT ![n] = IF is_question_children_ready(n)
                                THEN "gates_passed" ELSE "children_sleep"]
    /\ UNCHANGED <<questionVars, nodeVars, callVars, bookVars, dictVars, runState,
                   question, runs, dispatchCount, toolVars>>

\* The task of n, back from both gates, marks n ready and puts it on the work
\* queue.
Enqueue(n) ==
    /\ runState = "running"
    /\ pc[n] = "gates_passed"
    /\ pc' = [pc EXCEPT ![n] = "queued"]
    /\ ready_question_set' = Some(ready_question_set[1] \cup {n})
    /\ ready_question_count' = Some(ready_question_count[1] + 1)
    /\ queue' = Some(Append(queue[1], n))
    /\ UNCHANGED <<questionVars, nodeVars, callVars, remaining_question_set,
                   solved_question_set, intermediate_process_tasks, dictVars, runState,
                   question, runs, dispatchCount, toolVars>>

\* asyncio.sleep(0.5) of the children gate is over.
ChildrenWake(n) ==
    /\ runState = "running"
    /\ pc[n] = "children_sleep"
    /\ pc' = [pc EXCEPT ![n] = "children_check"]
    /\ UNCHANGED <<questionVars, nodeVars, callVars, bookVars, dictVars, runState, question,
                   runs,
                   dispatchCount, toolVars>>

\* Dispatch that submits the head of the work queue and leaves it queued.
DispatchLeavesQueued ==
    /\ runState = "running"
    /\ queue[1] # <<>>
    /\ LET n == Head(queue[1])
       IN  /\ pc[n] = "queued"
           /\ ~is_solved(n)
           /\ dispatchCount' = [dispatchCount EXCEPT ![n] = @ + 1]
    /\ UNCHANGED <<questionVars, nodeVars, callVars, bookVars, dictVars, runState, question,
                   runs, pc,
                   toolVars>>

\* The head of the work queue is submitted to the answering unit.
Dispatch ==
    /\ runState = "running"
    /\ queue[1] # <<>>
    /\ LET n == Head(queue[1])
       IN  /\ pc[n] = "queued"
           /\ ~is_solved(n)
           /\ pc' = [pc EXCEPT ![n] = "in_flight"]
           /\ queue' = Some(Tail(queue[1]))
           /\ ready_question_set' = Some(ready_question_set[1] \ {n})
           /\ ready_question_count' = Some(ready_question_count[1] - 1)
           /\ remaining_question_set' = Some(remaining_question_set[1] \ {n})
           /\ dispatchCount' = [dispatchCount EXCEPT ![n] = @ + 1]
    /\ UNCHANGED <<questionVars, nodeVars, callVars, solved_question_set,
                   intermediate_process_tasks, dictVars, runState, question, runs,
                   toolVars>>

\* The answering unit answers n: the answer is stored and the completion payload
\* goes to process_intermediate_info; a tool that raises ends the task of n.
AnswerArrives(n) ==
    /\ runState = "running"
    /\ pc[n] = "in_flight"
    /\ \E a \in Answers, raiseAt \in 0..Len(intermediate_process_tools) :
          LET r == process_intermediate_info(Payload(n, a), raiseAt)
          IN  /\ answer' = [answer EXCEPT ![n] = Some(a)]
              /\ solved_question_set' = Some(solved_question_set[1] \cup {n})
              /\ lastCall' = [info |-> Payload(n, a), log |-> r.log,
                              raised |-> r.raised, made |-> TRUE]
              /\ stopSignals' = [t \in DOMAIN stopSignals |->
                                    stopSignals[t] + MarkerCalls(r.log, t)]
              /\ pc' = [pc EXCEPT ![n] = IF r.raised THEN "proc_failed" ELSE "finished"]
    /\ UNCHANGED <<dependencies, children, nodeVars, callVars, remaining_question_set,
                   ready_question_set, ready_question_count, queue, intermediate_process_tasks, dictVars,
                   runState, question, runs, dispatchCount>>

\* The answering unit fails for n: the task of n ends with the error, no answer.
AnswerFails(n) ==
    /\ runState = "running"
    /\ pc[n] = "in_flight"
    /\ pc' = [pc EXCEPT ![n] = "au_failed"]
    /\ UNCHANGED <<questionVars, nodeVars, callVars, bookVars, dictVars, runState, question,
                   runs,
                   dispatchCount, toolVars>>

\* solve_problem that catches an error of solve_problem_impl and returns None.
solve_problem_swallows(outcome) ==
    IF outcome.kind = "raised" THEN Value("None") ELSE outcome

\* solve_problem with the outcome of solve_problem_impl in hand: a value that
\* run_until_complete returns is returned, an error it raises leaves solve_problem.
solve_problem_result(outcome) == outcome

\* solve_problem_impl of the class Agent itself: raise NotImplementedError.
ImplNotImplemented ==
    /\ runState = "impl_start"
    /\ ~overridden
    /\ implOutcome' = Raised("NotImplementedError")
    /\ returned' = solve_problem_result(Raised("NotImplementedError"))
    /\ runState' = "failed"
    /\ UNCHANGED <<questionVars, nodeVars, overridden, bookVars, dictVars, question,
                   runs, pc, dispatchCount, toolVars>>

\* The end of a run: the end marker goes to process_intermediate_info, then
\* solve_problem_impl ends with what it produced and solve_problem with it.
EndOfRun(outcome, produced) ==
    \E raiseAt \in 0..Len(intermediate_process_tools) :
        LET r == process_intermediate_info(StopMarker, raiseAt)
            o == IF r.raised THEN Raised("ToolError") ELSE produced
        IN  /\ lastCall' = [info |-> StopMarker, log |-> r.log,
                            raised |-> r.raised, made |-> TRUE]
            /\ stopSignals' = [t \in DOMAIN stopSignals |->
                                  stopSignals[t] + MarkerCalls(r.log, t)]
            /\ runState' = IF r.raised THEN "failed" ELSE outcome
            /\ implOutcome' = o
            /\ returned' = solve_problem_result(o)

\* The task of the root has finished: solve_problem returns the root's answer.
RunComplete ==
    /\ runState = "running"
    /\ pc[question] = "finished"
    /\ EndOfRun("done", Value(answer[question][1]))
    /\ UNCHANGED <<questionVars, nodeVars, overridden, bookVars, dictVars, question,
                   runs, pc, dispatchCount>>

\* The task of the root ended with an error: solve_problem raises it.
RunFail ==
    /\ runState = "running"
    /\ pc[question] \in {"au_failed", "proc_failed"}
    /\ EndOfRun("failed", Raised(IF pc[question] = "au_failed"
                                 THEN "AnsweringUnitError" ELSE "ToolError"))
    /\ UNCHANGED <<questionVars, nodeVars, overridden, bookVars, dictVars, question,
                   runs, pc, dispatchCount>>

\* An extra-info fetcher writes a key into the dict it was connected to.
FetcherWrite(f, k, v) ==
    /\ runState = "running"
    /\ heap' = [heap EXCEPT ![connected[f]][k] = Some(v)]
    /\ UNCHANGED <<questionVars, nodeVars, callVars, bookVars, extra_output_dict,
                   connected, runState,
                   question, runs, pc, dispatchCount, toolVars>>

TaskStep(n) ==
    \/ DepsCheck(n)
    \/ DepsWake(n)
    \/ ChildrenCheck(n)
    \/ ChildrenWake(n)
    \/ Enqueue(n)
    \/ AnswerArrives(n)
    \/ AnswerFails(n)

Next ==
    \/ SolveProblem(RootQuestion)
    \/ ImplStart
    \/ \E n \in Nodes : DepsCheck(n)
    \/ \E n \in Nodes : DepsWake(n)
    \/ \E n \in Nodes : ChildrenCheck(n)
    \/ \E n \in Nodes : ChildrenWake(n)
    \/ \E n \in Nodes : Enqueue(n)
    \/ Dispatch
    \/ \E n \in Nodes : AnswerArrives(n)
    \/ \E n \in Nodes : AnswerFails(n)
    \/ RunComplete
    \/ RunFail
    \/ \E f \in 1..Len(extra_info_fetch_tools), k \in Keys, v \in Values : FetcherWrite(f, k, v)

Spec == Init /\ [][Next]_vars

\* The event loop runs every task that can run, every sleep ends, and the answering
\* unit responds; the caller need not call solve_problem again and a fetcher need
\* not write.
Fairness ==
    /\ WF_vars(ImplStart)
    /\ \A n \in Nodes : WF_vars(TaskStep(n))
    /\ WF_vars(Dispatch)
    /\ WF_vars(RunComplete)
    /\ WF_vars(RunFail)

FairSpec == Init /\ [][Next]_vars /\ Fairness

\* An Agent of either kind: one whose class implements solve_problem_impl, or one
\* that has the solve_problem_impl of base.py.
AnyAgentInit ==
    /\ GraphInit
    /\ AgentInit
    /\ overridden \in BOOLEAN

AgentNext ==
    \/ Next
    \/ ImplNotImplemented

AgentSpec == AnyAgentInit /\ [][AgentNext]_vars

\* ------------------------------------------- building a question graph
\* No question exists yet; the Agent is as constructed.
CtorInit ==
    /\ dependencies = [n \in Nodes |-> <<>>]
    /\ children = [n \in Nodes |-> <<>>]
    /\ answer = [n \in Nodes |-> None]
    /\ built = [n \in Nodes |-> None]
    /\ listOf = [n \in Nodes |-> [dependencies |-> ArgumentList(n, "dependencies"),
                                   children |-> ArgumentList(n, "children")]]
    /\ parent = [n \in Nodes |-> None]
    /\ frame = NoFrame
    /\ AgentInit
    /\ overridden = TRUE

\* The caller builds questions, with or without the list arguments, and appends
\* to their dependencies and children.
CtorNext ==
    \/ \E n \in Nodes, deps_given \in BOOLEAN, children_given \in BOOLEAN :
          \E p \in {None} \cup {Some(m) : m \in {k \in Nodes : built[k] # None}} :
              Question_init(n, deps_given, children_given, p)
    \/ \E n \in Nodes, m \in Nodes : AppendDependency(n, m)
    \/ \E n \in Nodes, m \in Nodes : AppendChild(n, m)

CtorSpec == CtorInit /\ [][CtorNext]_vars

\* ------------------------------------------------- depth of a question
\* Questions without edges, each with any parent or none (chains, trees, cycles).
ParentValues == {None} \cup {Some(m) : m \in Nodes}
DepthInit ==
    /\ dependencies = [n \in Nodes |-> <<>>]
    /\ children = [n \in Nodes |-> <<>>]
    /\ answer = [n \in Nodes |-> None]
    /\ built = [n \in Nodes |-> Some([dependencies |-> TRUE, children |-> TRUE])]
    /\ listOf = [n \in Nodes |-> [dependencies |-> ArgumentList(n, "dependencies"),
                                   children |-> ArgumentList(n, "children")]]
    /\ parent \in [Nodes -> ParentValues]
    /\ frame = NoFrame
    /\ AgentInit
    /\ overridden = TRUE

DepthNext ==
    \/ \E n \in Nodes : get_current_depth(n)
    \/ DepthLoop

\* get_current_depth is synchronous code: a call that can go on does.
DepthSpec == DepthInit /\ [][DepthNext]_vars /\ WF_vars(DepthLoop)

\* ------------------------------------------------------------------ claims
GatingSet(n) == Range(dependencies[n]) \cup Range(children[n])
PastDepsGate == {"children_check", "children_sleep", "gates_passed", "queued",
                 "in_flight", "au_failed", "proc_failed"}
PastChildrenGate == {"gates_passed", "queued", "in_flight", "au_failed",
                     "proc_failed"}
Tools == Range(intermediate_process_tools)
Fetchers == 1..Len(extra_info_fetch_tools)
Terminated == runState \in {"done", "failed"}

\* C1: a task that has come out of is_question_deps_ready(N) has every member of
\* N.dependencies solved, one that has come out of is_question_children_ready(N)
\* has every member of N.children solved, and a node that was dispatched has its
\* whole gating set solved, under every interleaving of the tasks.
C1_GatesHoldBack ==
    \A n \in Nodes :
        /\ pc[n] \in PastDepsGate => \A d \in Range(dependencies[n]) : is_solved(d)
        /\ pc[n] \in PastChildrenGate => \A c \in Range(children[n]) : is_solved(c)
        /\ dispatchCount[n] > 0 => \A m \in GatingSet(n) : is_solved(m)

\* A node with a dependency and a child, both other nodes, has been dispatched.
C1_Witness ==
    \E n \in Nodes :
        /\ dispatchCount[n] = 1
        /\ \E d \in Range(dependencies[n]) : d # n
        /\ \E c \in Range(children[n]) : c # n

\* C2: when the question graph of the root is a DAG, a run that is under way
\* either sees an answering-unit call fail or terminates with the root solved:
\* it does not stay under way for ever with no such failure, and when it has
\* ended with no such failure the root is solved.
AnsweringUnitFailed == \E n \in Nodes : pc[n] = "au_failed"
C2_DagRunTerminates ==
    /\ []<>(~(runState = "running" /\ ~AnsweringUnitFailed /\ IsDAG(question)))
    /\ []((Terminated /\ ~AnsweringUnitFailed /\ ~is_solved(question))
              => ~IsDAG(question))

\* A run over a DAG of all the nodes has returned with the root solved.
C2_Witness ==
    /\ runState = "done"
    /\ IsDAG(question)
    /\ Cardinality(Reach(question)) > 2
    /\ is_solved(question)
    /\ ~AnsweringUnitFailed

\* C3: when a node waits at a gate for a member that will never be solved (it
\* lies on a cycle, or its answering-unit call failed), the run ends with a
\* failure, and the waiting node is never dispatched.
NeverSolved(m) == ~is_solved(m) /\ (pc[m] = "au_failed" \/ m \in ReachPlus(m))
AtDepsGate(n) == pc[n] \in {"deps_check", "deps_sleep"}
AtChildrenGate(n) == pc[n] \in {"children_check", "children_sleep"}
BlockedForever(n) ==
    \/ AtDepsGate(n) /\ \E d \in Range(dependencies[n]) : NeverSolved(d)
    \/ AtChildrenGate(n) /\ \E c \in Range(children[n]) : NeverSolved(c)
Stalled == runState = "running" /\ \E n \in Reach(question) : BlockedForever(n)
C3_StallEndsInFailure ==
    /\ Stalled ~> (runState = "failed")
    /\ [](\A n \in Nodes : BlockedForever(n) => dispatchCount[n] = 0)

\* C4: in a run no node is submitted to the answering unit twice, a node that
\* already had its answer when the run began is not submitted at all, a node
\* answered in the run was submitted exactly once, and when the run returns the
\* root's answer every node of the question graph has its answer.
C4_DispatchedExactlyOnce ==
    runState # "idle" =>
        /\ \A n \in Nodes : dispatchCount[n] <= 1
        /\ \A n \in Nodes :
              is_solved(n) =>
                  dispatchCount[n] = (IF n \in solved_question_set[1] THEN 1 ELSE 0)
        /\ runState = "done" => \A n \in Reach(question) : is_solved(n)

\* A second run has returned: a node the first run answered was not submitted
\* again, and a node the first run left without an answer was submitted once.
C4_Witness ==
    /\ runState = "done"
    /\ runs = 2
    /\ \E n \in Reach(question) : is_solved(n) /\ dispatchCount[n] = 0
    /\ \E m \in Reach(question) : is_solved(m) /\ dispatchCount[m] = 1

\* C5: when a run has ended, by return or by failure, every registered tool has
\* had process() called exactly once with the end marker.
C5_OneEndSignalPerTool ==
    Terminated => \A t \in Tools : stopSignals[t] = 1

\* C6: a call of process_intermediate_info with a completion payload calls
\* process(payload) once on every registered tool, in registration order.
C6_EveryToolOncePerPayload ==
    (lastCall.made /\ lastCall.info # StopMarker) =>
        lastCall.log = [i \in 1..Len(intermediate_process_tools) |->
                            <<intermediate_process_tools[i], lastCall.info>>]

\* C7: a tool that raises does not end process_intermediate_info, the task that
\* called it or the run: no call raises, no task ends on a tool's error, and a
\* run fails only on an answering-unit error of the root.
C7_ToolFailureContained ==
    /\ ~lastCall.raised
    /\ \A n \in Nodes : pc[n] # "proc_failed"
    /\ runState = "failed" => pc[question] = "au_failed"

\* C8: from the start of a run on, the dict every fetcher is connected to is the
\* Agent's extra_output_dict, so a key a fetcher wrote is in extra_output_dict.
C8_FetchersShareOutputDict ==
    runState # "idle" =>
        \A f \in Fetchers :
            /\ connected[f] = extra_output_dict
            /\ \A k \in Keys :
                  heap[connected[f]][k] # None =>
                      heap[extra_output_dict][k] = heap[connected[f]][k]

\* C9: when solve_problem_impl is about to start, the three sets and the work
\* queue are empty and ready_question_count is 0.
C9_RunStartsClean ==
    runState = "impl_start" =>
        /\ remaining_question_set = Some({})
        /\ ready_question_set = Some({})
        /\ solved_question_set = Some({})
        /\ ready_question_count = Some(0)
        /\ queue = Some(<<>>)

\* A second run is about to start after a first one that answered nodes.
C9_Witness ==
    /\ runState = "impl_start"
    /\ runs = 2
    /\ \E n \in Nodes : is_solved(n)

\* C10: a node that is solved stays solved in every step of the engine.
C10_SolvedStaysSolved ==
    [][\A n \in Nodes : is_solved(n) => is_solved(n)']_vars

\* A node answered in the first run is still solved while the second run, after
\* its reset_context, is under way.
C10_Witness ==
    /\ runState = "running"
    /\ runs = 2
    /\ \E n \in Reach(question) : is_solved(n) /\ pc[n] = "finished"

\* C11: two distinct nodes built without the dependencies argument (without the
\* children argument) each own an independent empty sequence: a node so built
\* starts with the sequence empty, and a step that changes the sequence of one
\* of them leaves the sequence of every other one as it was.
WithoutArgument(n, field) == built[n] # None /\ ~built[n][1][field]
C11_DefaultListsIndependent ==
    [][/\ \A n \in Nodes :
            (built[n] = None /\ built'[n] # None) =>
                /\ ~built'[n][1].dependencies => dependencies'[n] = <<>>
                /\ ~built'[n][1].children => children'[n] = <<>>
       /\ \A n \in Nodes : \A m \in Nodes \ {n} :
            /\ (WithoutArgument(n, "dependencies") /\ WithoutArgument(m, "dependencies")
                    /\ dependencies'[n] # dependencies[n])
                  => dependencies'[m] = dependencies[m]
            /\ (WithoutArgument(n, "children") /\ WithoutArgument(m, "children")
                    /\ children'[n] # children[n])
                  => children'[m] = children[m]]_vars

\* C12: on an acyclic parent chain get_current_depth() terminates and returns 1
\* plus the number of parent links between the node and the root (1 for a node
\* without a parent, the parent's depth plus 1 otherwise), and the call changes
\* no node state.
RECURSIVE ReachesRoot(_, _)
ReachesRoot(n, fuel) ==
    IF parent[n] = None THEN TRUE
    ELSE IF fuel = 0 THEN FALSE
    ELSE ReachesRoot(parent[n][1], fuel - 1)
AcyclicChain(n) == ReachesRoot(n, NumNodes)
RECURSIVE ParentLinks(_)
ParentLinks(n) == IF parent[n] = None THEN 0 ELSE 1 + ParentLinks(parent[n][1])
C12_DepthCountsParentLinks ==
    /\ []((frame.pc = "returned" /\ AcyclicChain(frame.self)) =>
              frame.now_depth = 1 + ParentLinks(frame.self))
    /\ (frame.pc = "loop" /\ AcyclicChain(frame.self)) ~> (frame.pc = "returned")
    /\ [][frame' # frame => UNCHANGED <<questionVars, built, listOf, parent>>]_vars

\* The call has returned for a node with a parent that has a parent.
C12_Witness ==
    /\ frame.pc = "returned"
    /\ AcyclicChain(frame.self)
    /\ ParentLinks(frame.self) >= 2
    /\ frame.now_depth >= 3

\* C13: solve_problem returns exactly the value solve_problem_impl produced for
\* the root, and an error solve_problem_impl raises (the NotImplementedError of
\* base.py included) reaches the caller of solve_problem: it is not swallowed
\* and not turned into a returned value.
C13_OutcomePassedThrough ==
    /\ ~Terminated => returned = Pending
    /\ runState = "done" =>
          (implOutcome.kind = "value" /\ returned = implOutcome)
    /\ runState = "failed" =>
          (implOutcome.kind = "raised" /\ returned = implOutcome)
    /\ (Terminated /\ ~overridden) => returned = Raised("NotImplementedError")

\* solve_problem of an Agent without a solve_problem_impl of its own has raised.
C13_Witness ==
    /\ ~overridden
    /\ runState = "failed"
    /\ implOutcome = Raised("NotImplementedError")
    /\ returned.kind = "raised"

\* C14: a task waiting in is_question_deps_ready(N) whose dependencies have all
\* been given an answer, by whichever task, comes out of that gate, and so does
\* a task waiting in is_question_children_ready(N) once the children are all
\* solved: no waiter stays suspended once its gating set is solved, so again
\* and again no task of the run is waiting at a gate whose set is solved.
WaitsOnSolvedDeps(n) ==
    /\ runState = "running"
    /\ AtDepsGate(n)
    /\ \A d \in Range(dependencies[n]) : is_solved(d)
WaitsOnSolvedChildren(n) ==
    /\ runState = "running"
    /\ AtChildrenGate(n)
    /\ \A c \in Range(children[n]) : is_solved(c)
C14_SolvedSetReleasesWaiter ==
    []<>(\A n \in Nodes : ~WaitsOnSolvedDeps(n) /\ ~WaitsOnSolvedChildren(n))

\* A task is asleep in the dependencies gate and another task has by now solved
\* every dependency it waits for.
C14_Witness ==
    /\ runState = "running"
    /\ \E n \in Nodes :
          /\ pc[n] = "deps_sleep"
          /\ dependencies[n] # <<>>
          /\ \A d \in Range(dependencies[n]) :
                d # n /\ is_solved(d) /\ dispatchCount[d] = 1

\* C15: a gate whose list is empty, or whose members are all solved, when it
\* tests the list does not suspend: the task does not go to the poll sleep.
C15_SolvedSetNeverSleeps ==
    [][\A n \in Nodes :
          /\ (pc[n] = "deps_check" /\ \A d \in Range(dependencies[n]) : is_solved(d))
                => pc'[n] # "deps_sleep"
          /\ (pc[n] = "children_check" /\ \A c \in Range(children[n]) : is_solved(c))
                => pc'[n] # "children_sleep"]_vars

\* In a second run a node has passed both gates at once: its dependencies were
\* all solved before the run began and it has no children.
C15_Witness ==
    /\ runs = 2
    /\ \E n \in Nodes :
          /\ pc[n] \in PastChildrenGate
          /\ children[n] = <<>>
          /\ dependencies[n] # <<>>
          /\ \A d \in Range(dependencies[n]) :
                is_solved(d) /\ dispatchCount[d] = 0 /\ pc[d] = "finished"

====
